---- MODULE Spec2Model ----
(***************************************************************************)
(* Collaborative drawing canvas: the server's operation log                *)
(* (server/drawing-state.js), the WebSocket server that dispatches draw,   *)
(* cursor, undo, redo and clear messages to it and fans the results out    *)
(* (server entry file), the room registry (server/rooms.js), and the       *)
(* browser client that applies what it receives to its canvas              *)
(* (client/main.js, client/canvas.js).                                     *)
(***************************************************************************)
EXTENDS Integers, Sequences, FiniteSets, TLC

(* ---------------------------- bounds ----------------------------------- *)
\* largest history cap (constructor argument maxOperations) explored
MaxCap == 3
\* largest value the operation id counter may reach
MaxOps == 4
\* largest value the server's userIdCounter may reach (connections made)
MaxUsers == 2
\* most draw frames the clients send in a run of the system
MaxDraws == 2
\* latest time the clock of Date.now() reaches
MaxClock == 1
\* most operations appended to the log of one room
MaxRoomOps == 1
\* the server handles an event only while every session has fewer than
\* MaxQueue frames in flight to it (a handler then adds one, a join two)
MaxQueue == 1

(* ---------------------------- values ----------------------------------- *)
\* browser tabs
Clients == {"A", "B"}
\* draw payloads (canvas.js handleMouseMove 95-103): x, y and the rest of
\* the segment, which nothing but the renderer reads; two distinct segments
\* differ in x or y
Segment(x, y) == [x |-> x, y |-> y]
DrawData == {Segment(1, 1), Segment(2, 1)}
\* session ids: the n of `user_${n}`
UserIds == 1..MaxUsers
\* JavaScript undefined / null
Undefined == [undefined |-> TRUE]
Null == 0

VARIABLES
    \* DrawingState
    operations, redoStack, maxOperations, operationIdCounter,
    \* value the last direct call of a DrawingState method returned
    result,
    \* server entry file
    users, readyState, userIdCounter,
    \* frames in flight from the server to each connection's client
    inbox,
    \* client: WebSocketClient.ws, DrawingProtocol.userId, DrawingProtocol.users,
    \* and the strokes on the canvas since it was last cleared
    ws, userId, roster, view,
    \* the last call from outside: the server's message handler with its
    \* connection and the text of the frame, or a RoomManager method with its
    \* arguments
    received,
    \* RoomManager.rooms, and the clock Date.now() reads
    rooms, now,
    \* client: each browser's WebSocketClient (the state of its socket, its
    \* reconnectAttempts, whether the reconnect timer is pending) and the
    \* number of times the timer has called connect() since the last open
    wsClient

logVars == <<operations, redoStack, maxOperations, operationIdCounter>>
srvVars == <<users, readyState, userIdCounter>>
cliVars == <<ws, userId, roster, view>>
extVars == <<received, rooms, now, wsClient>>
vars == <<operations, redoStack, maxOperations, operationIdCounter, result,
          users, readyState, userIdCounter, inbox,
          ws, userId, roster, view, received, rooms, now, wsClient>>

(* ------------------------- array helpers ------------------------------- *)
\* Array.prototype.slice(-n): the last n elements; slice(-0) is slice(0)
SliceLastFirstN(s, n) ==
    IF n = 0 \/ n >= Len(s) THEN s ELSE SubSeq(s, 1, n)

SliceLast(s, n) ==
    IF n = 0 \/ n >= Len(s) THEN s ELSE SubSeq(s, Len(s) - n + 1, Len(s))

\* Array.prototype.pop: the array without its last element
Front(s) == SubSeq(s, 1, Len(s) - 1)
Last(s) == s[Len(s)]

(* --------------------------- DrawingState ------------------------------ *)
\* constructor(maxOperations)
DrawingStateInit(cap) ==
    /\ operations = <<>>
    /\ redoStack = <<>>
    /\ maxOperations = cap
    /\ operationIdCounter = 0
    /\ result = Undefined

\* the object literal { id: ++counter, timestamp, ...operation }: the fields
\* of operation are spread last and win (timestamp, a wall-clock reading no
\* operation depends on, is left out)
NewOp(operation) == operation @@ [id |-> operationIdCounter + 1]

\* a history limit that lets one operation too many stay
LimitHistoryOneMore(ops) ==
    IF Len(ops) > maxOperations + 1 THEN SliceLast(ops, maxOperations + 1) ELSE ops

\* history limit of addOperation
LimitHistory(ops) ==
    IF Len(ops) > maxOperations THEN SliceLast(ops, maxOperations) ELSE ops

\* Each method below is the method's effect on the object; the value it
\* returns is the definition named ...Result.
addOperationKeepRedo(operation) ==
    /\ operationIdCounter' = operationIdCounter + 1
    /\ operations' = LimitHistory(Append(operations, NewOp(operation)))
    /\ redoStack' = redoStack
    /\ UNCHANGED maxOperations

addOperation(operation) ==
    /\ operationIdCounter' = operationIdCounter + 1
    /\ operations' = LimitHistory(Append(operations, NewOp(operation)))
    /\ redoStack' = <<>>
    /\ UNCHANGED maxOperations

addOperationResult(operation) == NewOp(operation)

NothingToUndo == [success |-> FALSE, message |-> "Nothing to undo"]
NothingToRedo == [success |-> FALSE, message |-> "Nothing to redo"]

\* undo that copies the newest entry to the redo stack and leaves it in place
undoCopies ==
    IF Len(operations) = 0
    THEN UNCHANGED <<operations, redoStack, maxOperations, operationIdCounter>>
    ELSE /\ redoStack' = Append(redoStack, Last(operations))
         /\ UNCHANGED <<operations, maxOperations, operationIdCounter>>

\* undo without the emptiness test: pop() of an empty array is undefined
undoUnguarded ==
    /\ operations' = IF operations = <<>> THEN <<>> ELSE Front(operations)
    /\ redoStack' = Append(redoStack,
                      IF operations = <<>> THEN Undefined ELSE Last(operations))
    /\ UNCHANGED <<maxOperations, operationIdCounter>>

undo ==
    IF Len(operations) = 0
    THEN UNCHANGED <<operations, redoStack, maxOperations, operationIdCounter>>
    ELSE /\ operations' = Front(operations)
         /\ redoStack' = Append(redoStack, Last(operations))
         /\ UNCHANGED <<maxOperations, operationIdCounter>>

\* result.operations is the operations array itself, read after the pop
undoResult ==
    IF Len(operations) = 0
    THEN NothingToUndo
    ELSE [success |-> TRUE, operations |-> Front(operations)]

\* redo that takes the operation undone first (shift instead of pop)
redoOldestFirst ==
    IF Len(redoStack) = 0
    THEN UNCHANGED <<operations, redoStack, maxOperations, operationIdCounter>>
    ELSE /\ redoStack' = Tail(redoStack)
         /\ operations' = Append(operations, Head(redoStack))
         /\ UNCHANGED <<maxOperations, operationIdCounter>>

\* redo that drops the rest of the redo stack
redoClearsStack ==
    IF Len(redoStack) = 0
    THEN UNCHANGED <<operations, redoStack, maxOperations, operationIdCounter>>
    ELSE /\ redoStack' = <<>>
         /\ operations' = Append(operations, Last(redoStack))
         /\ UNCHANGED <<maxOperations, operationIdCounter>>

redo ==
    IF Len(redoStack) = 0
    THEN UNCHANGED <<operations, redoStack, maxOperations, operationIdCounter>>
    ELSE /\ redoStack' = Front(redoStack)
         /\ operations' = Append(operations, Last(redoStack))
         /\ UNCHANGED <<maxOperations, operationIdCounter>>

redoResult ==
    IF Len(redoStack) = 0
    THEN NothingToRedo
    ELSE [success |-> TRUE, operations |-> Append(operations, Last(redoStack))]

\* clear that also restarts the id counter / that keeps the redo stack
clearResetsCounter ==
    /\ operations' = <<>>
    /\ redoStack' = <<>>
    /\ operationIdCounter' = 0
    /\ UNCHANGED maxOperations

clearKeepsRedo ==
    /\ operations' = <<>>
    /\ redoStack' = redoStack
    /\ UNCHANGED <<maxOperations, operationIdCounter>>

clear ==
    /\ operations' = <<>>
    /\ redoStack' = <<>>
    /\ UNCHANGED <<maxOperations, operationIdCounter>>

\* getOperationsSince that also returns the operation of the given id
getOperationsSinceInclusive(sinceId) ==
    SelectSeq(operations, LAMBDA op : op.id >= sinceId)

\* getOperationsSince: operations.filter(op => op.id > sinceId)
getOperationsSince(sinceId) ==
    SelectSeq(operations, LAMBDA op : op.id > sinceId)

(* -------------------- the log driven on its own ------------------------ *)
\* what the server passes to addOperation (handleDraw)
OperationInputs ==
    [type : {"draw"}, userId : UserIds, data : DrawData]

(* ----------------------- WebSocketClient ------------------------------- *)
maxReconnectAttempts == 5

\* connect(): a new WebSocket, which starts out connecting. The URL is the
\* page's own host, so the constructor does not throw.
connect(w) == [w EXCEPT !.readyState = "CONNECTING"]

\* the constructor, which ends by calling connect()
NewWebSocketClient ==
    connect([readyState |-> "CLOSED", reconnectAttempts |-> 0, timer |-> FALSE,
             retries |-> 0])

\* ws.onopen
onopen(w) == [w EXCEPT !.readyState = "OPEN", !.reconnectAttempts = 0,
                       !.retries = 0]

\* attemptReconnect that tests with <= instead of <
attemptReconnectOneMore(w) ==
    IF w.reconnectAttempts <= maxReconnectAttempts
    THEN [w EXCEPT !.reconnectAttempts = @ + 1, !.timer = TRUE]
    ELSE w

attemptReconnect(w) ==
    IF w.reconnectAttempts < maxReconnectAttempts
    THEN [w EXCEPT !.reconnectAttempts = @ + 1, !.timer = TRUE]
    ELSE w

\* ws.onclose: the socket has closed (an attempt failed, or an open
\* connection went down)
onclose(w) == attemptReconnect([w EXCEPT !.readyState = "CLOSED"])

\* the callback of setTimeout in attemptReconnect
onTimer(w) == connect([w EXCEPT !.timer = FALSE, !.retries = @ + 1])

IdleSystem ==
    /\ wsClient = [c \in Clients |-> NewWebSocketClient]
    /\ users = {}
    /\ readyState = [u \in UserIds |-> "CLOSED"]
    /\ userIdCounter = 0
    /\ inbox = [u \in UserIds |-> <<>>]
    /\ ws = [c \in Clients |-> Null]
    /\ userId = [c \in Clients |-> Null]
    /\ roster = [c \in Clients |-> {}]
    /\ view = [c \in Clients |-> <<>>]
    /\ received = <<>>

\* rooms.js is not loaded: the server entry file does not require it
NoRoomManager ==
    /\ rooms = <<>>
    /\ now = 0

sysVars == <<users, readyState, userIdCounter, inbox, ws, userId, roster, view>>

LogInit ==
    /\ \E cap \in 1..MaxCap : DrawingStateInit(cap)
    /\ IdleSystem
    /\ NoRoomManager

LogAppend(operation) ==
    /\ operationIdCounter < MaxOps
    /\ addOperation(operation)
    /\ result' = addOperationResult(operation)
    /\ UNCHANGED <<sysVars, extVars>>

LogUndo == undo /\ result' = undoResult /\ UNCHANGED <<sysVars, extVars>>
LogRedo == redo /\ result' = redoResult /\ UNCHANGED <<sysVars, extVars>>
LogClear == clear /\ result' = Undefined /\ UNCHANGED <<sysVars, extVars>>

LogNext ==
    \/ \E operation \in OperationInputs : LogAppend(operation)
    \/ LogUndo
    \/ LogRedo
    \/ LogClear

LogSpec == LogInit /\ [][LogNext]_vars

\* the log driven with getOperationsSince next to the other methods; the
\* array it returns is held as [array |-> it], which tells it from the
\* records the other methods return
SinceIds == (0 - 1)..(MaxOps + 1)

LogSince(sinceId) ==
    /\ result' = [array |-> getOperationsSince(sinceId)]
    /\ UNCHANGED <<logVars, sysVars, extVars>>

QueryNext ==
    \/ LogNext
    \/ \E sinceId \in SinceIds : LogSince(sinceId)

QuerySpec == LogInit /\ [][QueryNext]_vars

\* appends only
AppendNext == \E operation \in OperationInputs : LogAppend(operation)

AppendSpec == LogInit /\ [][AppendNext]_vars

(* ------------------------- the server ---------------------------------- *)
\* the history cap of the server's log: new DrawingState() keeps 500
\* operations; the model keeps ServerCap so that runs reach the limit
ServerCap == MaxDraws - 1

\* frames (JSON.stringify of these objects; every field modelled is a string,
\* a number or an array of operations and survives the round trip unchanged)
UserJoinedMsg(uid, us) == [type |-> "user-joined", userId |-> uid, users |-> us]
UserLeftMsg(uid, us) == [type |-> "user-left", userId |-> uid, users |-> us]
StateSyncMsg(ops) == [type |-> "state-sync", operations |-> ops]
DrawMsg(uid, drawData) == [type |-> "draw", userId |-> uid, data |-> drawData]
UndoMsg(ops) == [type |-> "undo", operations |-> ops]
RedoMsg(ops) == [type |-> "redo", operations |-> ops]
ClearMsg == [type |-> "clear"]
CursorMsg(uid, x, y) == [type |-> "cursor", userId |-> uid, x |-> x, y |-> y]

\* the text of a frame: JSON.stringify(value) is text that JSON.parse reads
\* back as value; NullText ("null") is read as null; Malformed is text that
\* JSON.parse rejects
JSONstringify(value) == [json |-> value]
NullText == [text |-> "null"]
Malformed == [text |-> "{"]
WellFormed(message) == message # Malformed
JSONparse(message) == IF message = NullText THEN Null ELSE message.json
\* obj[name]: undefined when the object has no such property (a property
\* that is undefined is left out of the text and read back as missing)
Field(obj, name) == IF name \in DOMAIN obj THEN obj[name] ELSE Undefined
\* data.type as the switch compares it: a missing type matches no case
TypeTag(data) == IF "type" \in DOMAIN data THEN data.type ELSE "undefined"

\* broadcast(message, excludeUserId) over the users map us with transports rs,
\* applied to the in-flight frames ib
broadcast(ib, us, rs, message, excludeUserId) ==
    [u \in UserIds |->
        IF u \in us /\ u # excludeUserId /\ rs[u] = "OPEN"
        THEN Append(ib[u], message) ELSE ib[u]]

sendToUser(ib, us, rs, uid, message) ==
    [u \in UserIds |->
        IF u = uid /\ u \in us /\ rs[u] = "OPEN"
        THEN Append(ib[u], message) ELSE ib[u]]

\* getAllOperations that also returns what was undone
getAllOperationsWithUndone == operations \o redoStack

\* getAllOperations: a copy of the array
getAllOperations == operations

\* a connection handler whose broadcast does not leave the new user out
OnConnectionEchoes(c) ==
    LET uid == userIdCounter + 1
        us == users \cup {uid}
        rs == [readyState EXCEPT ![uid] = "OPEN"]
        ib1 == sendToUser(inbox, us, rs, uid, UserJoinedMsg(uid, us))
        ib2 == IF Len(getAllOperations) > 0
               THEN sendToUser(ib1, us, rs, uid, StateSyncMsg(getAllOperations))
               ELSE ib1
    IN  /\ userIdCounter' = uid
        /\ users' = us
        /\ readyState' = rs
        /\ inbox' = broadcast(ib2, us, rs, UserJoinedMsg(uid, us), Null)

\* a connection handler that numbers a user by the count of users present
OnConnectionCountsUsers(c) ==
    LET uid == Cardinality(users) + 1
        us == users \cup {uid}
        rs == [readyState EXCEPT ![uid] = "OPEN"]
        ib1 == sendToUser(inbox, us, rs, uid, UserJoinedMsg(uid, us))
        ib2 == IF Len(getAllOperations) > 0
               THEN sendToUser(ib1, us, rs, uid, StateSyncMsg(getAllOperations))
               ELSE ib1
    IN  /\ userIdCounter' = uid
        /\ users' = us
        /\ readyState' = rs
        /\ inbox' = broadcast(ib2, us, rs, UserJoinedMsg(uid, us), uid)

\* wss.on("connection"): the new user gets user-joined, then state-sync when
\* the log is not empty; the others get user-joined
OnConnection(c) ==
    LET uid == userIdCounter + 1
        us == users \cup {uid}
        rs == [readyState EXCEPT ![uid] = "OPEN"]
        ib1 == sendToUser(inbox, us, rs, uid, UserJoinedMsg(uid, us))
        ib2 == IF Len(getAllOperations) > 0
               THEN sendToUser(ib1, us, rs, uid, StateSyncMsg(getAllOperations))
               ELSE ib1
    IN  /\ userIdCounter' = uid
        /\ users' = us
        /\ readyState' = rs
        /\ inbox' = broadcast(ib2, us, rs, UserJoinedMsg(uid, us), uid)

\* handleDraw that leaves the sender out of the broadcast
handleDrawSkipsSender(uid, drawData) ==
    /\ addOperation([type |-> "draw", userId |-> uid, data |-> drawData])
    /\ inbox' = broadcast(inbox, users, readyState, DrawMsg(uid, drawData), uid)

handleDraw(uid, drawData) ==
    /\ addOperation([type |-> "draw", userId |-> uid, data |-> drawData])
    /\ inbox' = broadcast(inbox, users, readyState, DrawMsg(uid, drawData), Null)

\* undo that answers the broadcast also when the log refused
handleUndoAlwaysBroadcasts ==
    /\ undo
    /\ inbox' = broadcast(inbox, users, readyState, UndoMsg(operations'), Null)

handleUndo ==
    LET res == undoResult
    IN  /\ undo
        /\ inbox' = IF res.success
                    THEN broadcast(inbox, users, readyState, UndoMsg(res.operations), Null)
                    ELSE inbox

handleRedo ==
    LET res == redoResult
    IN  /\ redo
        /\ inbox' = IF res.success
                    THEN broadcast(inbox, users, readyState, RedoMsg(res.operations), Null)
                    ELSE inbox

handleClear ==
    /\ clear
    /\ inbox' = broadcast(inbox, users, readyState, ClearMsg, Null)

\* handleCursor: the position goes to everyone but the sender; the log is
\* not involved
handleCursorToAll(uid, data) ==
    /\ inbox' = broadcast(inbox, users, readyState,
                          CursorMsg(uid, Field(data, "x"), Field(data, "y")), Null)
    /\ UNCHANGED logVars

handleCursor(uid, data) ==
    /\ inbox' = broadcast(inbox, users, readyState,
                          CursorMsg(uid, Field(data, "x"), Field(data, "y")), uid)
    /\ UNCHANGED logVars

\* the switch on data.type: there is no default case
DispatchUnknownAsClear(uid, data) ==
    CASE TypeTag(data) = "draw" -> handleDraw(uid, Field(data, "data"))
      [] TypeTag(data) = "cursor" -> handleCursor(uid, data)
      [] TypeTag(data) = "undo" -> handleUndo
      [] TypeTag(data) = "redo" -> handleRedo
      [] OTHER -> handleClear

Dispatch(uid, data) ==
    CASE TypeTag(data) = "draw" -> handleDraw(uid, Field(data, "data"))
      [] TypeTag(data) = "cursor" -> handleCursor(uid, data)
      [] TypeTag(data) = "undo" -> handleUndo
      [] TypeTag(data) = "redo" -> handleRedo
      [] TypeTag(data) = "clear" -> handleClear
      [] OTHER -> UNCHANGED <<logVars, inbox>>

\* ws.on("message"): JSON.parse and the switch run inside try; the catch
\* logs the error (a SyntaxError of JSON.parse, or the TypeError of reading
\* .type of null) and the handler returns
OnMessage(uid, message) ==
    IF ~WellFormed(message) \/ message = NullText
    THEN UNCHANGED <<logVars, inbox>>
    ELSE Dispatch(uid, JSONparse(message))

\* a close handler that announces the departure before it deletes the user
OnCloseAnnouncesFirst(uid) ==
    /\ users' = users \ {uid}
    /\ inbox' = broadcast(inbox, users, readyState,
                          UserLeftMsg(uid, users), Null)

\* ws.on("close")
OnClose(uid) ==
    /\ users' = users \ {uid}
    /\ inbox' = broadcast(inbox, users', readyState,
                          UserLeftMsg(uid, users'), Null)

(* ------------------------- the client ---------------------------------- *)
\* CanvasManager.drawRemoteLine: draws unless data, x or y is missing
drawRemoteLine(canvas, data) ==
    IF data = Undefined \/ "x" \notin DOMAIN data \/ "y" \notin DOMAIN data
    THEN canvas ELSE Append(canvas, data)

\* CollaborativeDrawingApp.redrawCanvas: clear, then every draw operation
RECURSIVE DrawAll(_, _)
DrawAll(canvas, ops) ==
    IF ops = <<>> THEN canvas
    ELSE DrawAll(IF Head(ops).type = "draw"
                 THEN drawRemoteLine(canvas, Head(ops).data) ELSE canvas,
                 Tail(ops))

redrawCanvas(ops) == DrawAll(<<>>, ops)

\* DrawingProtocol.handleUserJoined that keeps the id once it is set
ProtocolHandleUserJoinedKeepsId(c, data) ==
    /\ userId' = [userId EXCEPT ![c] = IF @ = Null THEN data.userId ELSE @]
    /\ roster' = [roster EXCEPT ![c] = @ \cup data.users]
    /\ UNCHANGED view

\* DrawingProtocol.handleUserJoined: every user-joined frame sets this.userId
ProtocolHandleUserJoined(c, data) ==
    /\ userId' = [userId EXCEPT ![c] = data.userId]
    /\ roster' = [roster EXCEPT ![c] = @ \cup data.users]
    /\ UNCHANGED view

ProtocolHandleUserLeft(c, data) ==
    /\ roster' = [roster EXCEPT ![c] = @ \ {data.userId}]
    /\ UNCHANGED <<userId, view>>

\* DrawingProtocol.handleDraw and the app's "draw" handler
ProtocolHandleDraw(c, data) ==
    /\ view' = [view EXCEPT ![c] =
                  IF data.userId # userId[c] THEN drawRemoteLine(@, data.data) ELSE @]
    /\ UNCHANGED <<userId, roster>>

\* the "stateSync", "undo" and "redo" handlers
ProtocolHandleRedraw(c, data) ==
    /\ view' = [view EXCEPT ![c] = redrawCanvas(data.operations)]
    /\ UNCHANGED <<userId, roster>>

ProtocolHandleClear(c) ==
    /\ view' = [view EXCEPT ![c] = <<>>]
    /\ UNCHANGED <<userId, roster>>

\* DrawingProtocol.handleCursor and the app's "cursor" handler: a remote
\* cursor moves on the overlay, which is no part of the canvas
ProtocolHandleCursor(c, data) == UNCHANGED <<userId, roster, view>>

\* DrawingProtocol.setupMessageHandlers: the switch on data.type
OnClientMessage(c, data) ==
    CASE data.type = "user-joined" -> ProtocolHandleUserJoined(c, data)
      [] data.type = "user-left" -> ProtocolHandleUserLeft(c, data)
      [] data.type = "draw" -> ProtocolHandleDraw(c, data)
      [] data.type \in {"undo", "redo", "state-sync"} -> ProtocolHandleRedraw(c, data)
      [] data.type = "clear" -> ProtocolHandleClear(c)
      [] data.type = "cursor" -> ProtocolHandleCursor(c, data)
      [] OTHER -> UNCHANGED cliVars

(* --------------------- the system: steps ------------------------------- *)
\* A frame a client sends reaches the server in order and the server handles
\* it in one piece; a step that sends a frame therefore includes the server's
\* handler for it (handling it later commutes with everything that can happen
\* in between: the other steps only take frames from inboxes or add to them).
SysInit ==
    /\ DrawingStateInit(ServerCap)
    /\ IdleSystem
    /\ NoRoomManager

\* every in-flight queue a server handler may write to has room
InboxRoom == \A u \in users : Len(inbox[u]) < MaxQueue

\* a browser opens (or reopens, after a close) its WebSocket and the server's
\* connection handler runs; DrawingProtocol and the canvas outlive the socket
Connect(c) ==
    /\ ws[c] = Null
    /\ wsClient[c].readyState = "CONNECTING" \/ wsClient[c].timer
    /\ userIdCounter < MaxUsers
    /\ InboxRoom
    /\ OnConnection(c)
    /\ ws' = [ws EXCEPT ![c] = userIdCounter']
    /\ wsClient' = [wsClient EXCEPT ![c] = onopen(IF @.timer THEN onTimer(@) ELSE @)]
    /\ UNCHANGED <<logVars, result, received, rooms, now, userId, roster, view>>

\* WebSocketClient.send on an open socket, and the server's message handler
ClientSend(c, frame) ==
    /\ ws[c] # Null
    /\ InboxRoom
    /\ OnMessage(ws[c], JSONstringify(frame))
    /\ UNCHANGED <<srvVars, result, extVars, ws, userId, roster>>

\* the segment a client draws: segments are opaque to the server and to the
\* other clients, so each client draws one of its own, distinct from the
\* other clients', instead of choosing freely
ClientY == [c \in Clients |-> IF c = "A" THEN 1 ELSE 2]
NextSegment(c) == Segment(1, ClientY[c])

\* canvas.handleMouseMove while drawing: the stroke is drawn locally and
\* emitted. The view tracks the strokes that are sent: the segments the
\* 16 ms throttle keeps local, and those drawn while the socket is closed
\* (send only warns then), are not tracked.
ClientDraw(c) ==
    /\ operationIdCounter < MaxDraws
    /\ ClientSend(c, [type |-> "draw", data |-> NextSegment(c)])
    /\ view' = [view EXCEPT ![c] = Append(@, NextSegment(c))]

\* the undo, redo and clear buttons
ClientButton(c, type) ==
    /\ ClientSend(c, [type |-> type])
    /\ UNCHANGED view

\* the client takes the next frame of its socket
ClientReceive(c) ==
    /\ ws[c] # Null
    /\ inbox[ws[c]] # <<>>
    /\ OnClientMessage(c, Head(inbox[ws[c]]))
    /\ inbox' = [inbox EXCEPT ![ws[c]] = Tail(@)]
    /\ UNCHANGED <<logVars, result, extVars, srvVars, ws>>

\* the transport of a connection goes down: the frames in flight are lost,
\* the client's socket closes (onclose), the server's copy stops being OPEN
\* until its close handler runs
Disconnect(c) ==
    /\ ws[c] # Null
    /\ readyState' = [readyState EXCEPT ![ws[c]] = "CLOSED"]
    /\ inbox' = [inbox EXCEPT ![ws[c]] = <<>>]
    /\ ws' = [ws EXCEPT ![c] = Null]
    /\ wsClient' = [wsClient EXCEPT ![c] = onclose(@)]
    /\ UNCHANGED <<logVars, result, received, rooms, now, users, userIdCounter,
                   userId, roster, view>>

ServerClose(uid) ==
    /\ uid \in users
    /\ readyState[uid] # "OPEN"
    /\ InboxRoom
    /\ OnClose(uid)
    /\ UNCHANGED <<logVars, result, extVars, readyState, userIdCounter, cliVars>>

Next ==
    \/ \E c \in Clients : Connect(c)
    \/ \E c \in Clients : ClientDraw(c)
    \/ \E c \in Clients, type \in {"undo", "redo", "clear"} : ClientButton(c, type)
    \/ \E c \in Clients : ClientReceive(c)
    \/ \E c \in Clients : Disconnect(c)
    \/ \E uid \in UserIds : ServerClose(uid)

Spec == SysInit /\ [][Next]_vars

(* ------------------- connection attempts that fail --------------------- *)
\* In Spec every attempt to connect succeeds. ReconnectSpec adds the
\* attempts that fail, and takes the reconnect timer as a step of its own.
\* an attempt fails: the socket closes without having opened, and the
\* server's connection handler never runs
ConnectFails(c) ==
    /\ ws[c] = Null
    /\ wsClient[c].readyState = "CONNECTING"
    /\ wsClient' = [wsClient EXCEPT ![c] = onclose(@)]
    /\ UNCHANGED <<logVars, result, sysVars, received, rooms, now>>

\* reconnectDelay has passed: the timer calls connect()
Retry(c) ==
    /\ wsClient[c].timer
    /\ wsClient' = [wsClient EXCEPT ![c] = onTimer(@)]
    /\ UNCHANGED <<logVars, result, sysVars, received, rooms, now>>

ReconnectNext ==
    \/ \E c \in Clients : Connect(c)
    \/ \E c \in Clients : ConnectFails(c)
    \/ \E c \in Clients : Retry(c)
    \/ \E c \in Clients : ClientReceive(c)
    \/ \E c \in Clients : Disconnect(c)

ReconnectSpec == SysInit /\ [][ReconnectNext]_vars

(* ------------- the server's message handler, any sender ---------------- *)
\* The browser client is one program that speaks the protocol; the server
\* takes whatever text a connection carries. WireSpec drives the message
\* handler with the frames below instead of the client's buttons; the
\* connections, once made, stay up (Spec closes and reopens them).
WireObjects ==
    { [type |-> "draw", data |-> Segment(1, 1)],
      [type |-> "draw", data |-> [color |-> "#000000"]],
      [type |-> "draw"],
      [type |-> "cursor", x |-> 1, y |-> 1],
      [type |-> "undo"], [type |-> "redo"], [type |-> "clear"],
      [type |-> "ping"],
      [x |-> 1, y |-> 1] }

WireFrames == {JSONstringify(data) : data \in WireObjects} \cup {NullText, Malformed}

\* frames the switch hands to handleDraw
IsDrawFrame(message) ==
    /\ WellFormed(message) /\ message # NullText
    /\ TypeTag(JSONparse(message)) = "draw"

WireSend(c, message) ==
    /\ ws[c] # Null
    /\ InboxRoom
    /\ IsDrawFrame(message) => operationIdCounter < MaxDraws
    /\ OnMessage(ws[c], message)
    /\ received' = <<ws[c], message>>
    /\ UNCHANGED <<srvVars, result, cliVars, rooms, now, wsClient>>

WireNext ==
    \/ \E c \in Clients : Connect(c)
    \/ \E c \in Clients, message \in WireFrames : WireSend(c, message)
    \/ \E c \in Clients : ClientReceive(c)

WireSpec == SysInit /\ [][WireNext]_vars

(* --------------------------- RoomManager ------------------------------- *)
\* room ids callers use; the ids of room users are the callers' strings,
\* here the tab names
RoomIds == {"default", "lobby"}
defaultRoomId == "default"
\* null where a room, or a user id, is expected
NoRoom == [null |-> TRUE]
NoUser == "null"

\* a DrawingState object held by a room: the same methods on a record
DsNew(cap) ==
    [operations |-> <<>>, redoStack |-> <<>>, maxOperations |-> cap,
     operationIdCounter |-> 0]

DsAddOperation(ds, operation) ==
    LET op == operation @@ [id |-> ds.operationIdCounter + 1]
        ops == Append(ds.operations, op)
    IN  [ds EXCEPT !.operations = IF Len(ops) > ds.maxOperations
                                  THEN SliceLast(ops, ds.maxOperations) ELSE ops,
                   !.redoStack = <<>>,
                   !.operationIdCounter = @ + 1]

DsUndo(ds) ==
    IF Len(ds.operations) = 0 THEN ds
    ELSE [ds EXCEPT !.operations = Front(@),
                    !.redoStack = Append(@, Last(ds.operations))]

DsRedo(ds) ==
    IF Len(ds.redoStack) = 0 THEN ds
    ELSE [ds EXCEPT !.redoStack = Front(@),
                    !.operations = Append(@, Last(ds.redoStack))]

DsClear(ds) == [ds EXCEPT !.operations = <<>>, !.redoStack = <<>>]

\* a Map of users as the sequence of its entries in insertion order
MapHas(m, key) == \E i \in 1..Len(m) : m[i].id = key
MapSet(m, key, value) ==
    IF MapHas(m, key)
    THEN [i \in 1..Len(m) |-> IF m[i].id = key THEN [id |-> key, info |-> value] ELSE m[i]]
    ELSE Append(m, [id |-> key, info |-> value])
MapDelete(m, key) == SelectSeq(m, LAMBDA entry : entry.id # key)

\* the methods, on the rooms map rs (room id -> room)
NewRoom(roomId) ==
    [id |-> roomId, users |-> <<>>, drawingState |-> DsNew(ServerCap),
     createdAt |-> now]

\* createRoom that builds the room again when it exists
createRoomAnew(rs, roomId) ==
    [r \in DOMAIN rs \cup {roomId} |-> IF r = roomId THEN NewRoom(roomId) ELSE rs[r]]

createRoom(rs, roomId) ==
    IF roomId \in DOMAIN rs THEN rs
    ELSE [r \in DOMAIN rs \cup {roomId} |-> IF r = roomId THEN NewRoom(roomId) ELSE rs[r]]

getRoom(rs, roomId) == IF roomId \in DOMAIN rs THEN rs[roomId] ELSE NoRoom

getOrCreateRoom(rs, roomId) ==
    IF getRoom(rs, roomId) # NoRoom THEN rs ELSE createRoom(rs, roomId)

addUserToRoom(rs, roomId, uid, userInfo) ==
    LET rs1 == getOrCreateRoom(rs, roomId)
    IN  [rs1 EXCEPT ![roomId].users =
            MapSet(@, uid, [joinedAt |-> now] @@ userInfo)]

\* deleteRoom without the test for the default id
deleteRoomAny(rs, roomId) == [r \in DOMAIN rs \ {roomId} |-> rs[r]]

deleteRoom(rs, roomId) ==
    IF roomId # defaultRoomId THEN [r \in DOMAIN rs \ {roomId} |-> rs[r]] ELSE rs

\* removeUserFromRoom that keeps the room it has emptied
removeUserFromRoomKeepsRoom(rs, roomId, uid) ==
    IF getRoom(rs, roomId) = NoRoom THEN rs
    ELSE [rs EXCEPT ![roomId].users = MapDelete(@, uid)]

removeUserFromRoom(rs, roomId, uid) ==
    IF getRoom(rs, roomId) = NoRoom THEN rs
    ELSE LET rs1 == [rs EXCEPT ![roomId].users = MapDelete(@, uid)]
         IN  IF Len(rs1[roomId].users) = 0 /\ roomId # defaultRoomId
             THEN deleteRoom(rs1, roomId) ELSE rs1

\* broadcastToRoom whose forEach ends at the first transport that is not open
RECURSIVE ForEachSendStops(_, _, _, _, _)
ForEachSendStops(ib, entries, rs, message, excludeUserId) ==
    IF entries = <<>> THEN ib
    ELSE LET userId_ == Head(entries).id
             user == Head(entries).info
         IN  IF "ws" \in DOMAIN user /\ rs[user.ws] # "OPEN" THEN ib
             ELSE ForEachSendStops(
                     IF userId_ # excludeUserId /\ "ws" \in DOMAIN user
                     THEN [ib EXCEPT ![user.ws] = Append(@, message)] ELSE ib,
                     Tail(entries), rs, message, excludeUserId)

\* room.users.forEach of broadcastToRoom: a user is written to when it is
\* not the excluded one, has a ws, and that ws is open (readyState 1)
RECURSIVE ForEachSend(_, _, _, _, _)
ForEachSend(ib, entries, rs, message, excludeUserId) ==
    IF entries = <<>> THEN ib
    ELSE LET userId_ == Head(entries).id
             user == Head(entries).info
         IN  ForEachSend(
                 IF userId_ # excludeUserId /\ "ws" \in DOMAIN user
                    /\ rs[user.ws] = "OPEN"
                 THEN [ib EXCEPT ![user.ws] = Append(@, message)] ELSE ib,
                 Tail(entries), rs, message, excludeUserId)

\* broadcastToRoom that writes to the open users of every room
broadcastToRoomAll(ib, rs, rms, roomId, message, excludeUserId) ==
    IF getRoom(rms, roomId) = NoRoom THEN ib
    ELSE [u \in DOMAIN ib |->
            IF \E r \in DOMAIN rms : \E i \in 1..Len(rms[r].users) :
                  /\ rms[r].users[i].id # excludeUserId
                  /\ "ws" \in DOMAIN rms[r].users[i].info
                  /\ rms[r].users[i].info.ws = u
                  /\ rs[u] = "OPEN"
            THEN Append(ib[u], message) ELSE ib[u]]

broadcastToRoom(ib, rs, rms, roomId, message, excludeUserId) ==
    IF getRoom(rms, roomId) = NoRoom THEN ib
    ELSE ForEachSend(ib, getRoom(rms, roomId).users, rs, message, excludeUserId)

\* new RoomManager(): the default room is created
RoomManagerInit ==
    /\ now = 0
    /\ rooms = createRoom(<<>>, defaultRoomId)

(* ------------------ RoomManager driven on its own ---------------------- *)
\* what callers pass as userInfo
UserInfo(uid) == [username |-> uid]
\* what is appended to the log of a room: RoomManager never reads it
RoomOperation == [type |-> "draw", userId |-> "A", data |-> Segment(1, 1)]

RoomInit ==
    /\ DrawingStateInit(ServerCap)
    /\ IdleSystem
    /\ RoomManagerInit

\* the return value of createRoom and getOrCreateRoom: the room of that id
createRoomResult(rs, roomId) == createRoom(rs, roomId)[roomId]
getOrCreateRoomResult(rs, roomId) == getOrCreateRoom(rs, roomId)[roomId]

CreateRoom(roomId) ==
    /\ rooms' = createRoom(rooms, roomId)
    /\ received' = <<"createRoom", roomId>>
    /\ UNCHANGED <<logVars, sysVars, result, now, wsClient>>

GetOrCreateRoom(roomId) ==
    /\ rooms' = getOrCreateRoom(rooms, roomId)
    /\ received' = <<"getOrCreateRoom", roomId>>
    /\ UNCHANGED <<logVars, sysVars, result, now, wsClient>>

AddUserToRoom(roomId, uid) ==
    /\ rooms' = addUserToRoom(rooms, roomId, uid, UserInfo(uid))
    /\ received' = <<"addUserToRoom", roomId>>
    /\ UNCHANGED <<logVars, sysVars, result, now, wsClient>>

RemoveUserFromRoom(roomId, uid) ==
    /\ rooms' = removeUserFromRoom(rooms, roomId, uid)
    /\ received' = <<"removeUserFromRoom", roomId>>
    /\ UNCHANGED <<logVars, sysVars, result, now, wsClient>>

DeleteRoom(roomId) ==
    /\ rooms' = deleteRoom(rooms, roomId)
    /\ received' = <<"deleteRoom", roomId>>
    /\ UNCHANGED <<logVars, sysVars, result, now, wsClient>>

\* the caller appends to, or undoes on, the log of a room that has users
RoomDraw(roomId) ==
    /\ roomId \in DOMAIN rooms
    /\ rooms[roomId].users # <<>>
    /\ rooms[roomId].drawingState.operationIdCounter < MaxRoomOps
    /\ rooms' = [rooms EXCEPT ![roomId].drawingState =
                    DsAddOperation(@, RoomOperation)]
    /\ UNCHANGED <<logVars, sysVars, result, received, now, wsClient>>

RoomUndo(roomId) ==
    /\ roomId \in DOMAIN rooms
    /\ rooms[roomId].users # <<>>
    /\ rooms' = [rooms EXCEPT ![roomId].drawingState = DsUndo(@)]
    /\ UNCHANGED <<logVars, sysVars, result, received, now, wsClient>>

\* time passes
Tick ==
    /\ now < MaxClock
    /\ now' = now + 1
    /\ UNCHANGED <<logVars, sysVars, result, received, rooms, wsClient>>

RoomNext ==
    \/ \E roomId \in RoomIds : CreateRoom(roomId)
    \/ \E roomId \in RoomIds : GetOrCreateRoom(roomId)
    \/ \E roomId \in RoomIds, uid \in Clients : AddUserToRoom(roomId, uid)
    \/ \E roomId \in RoomIds, uid \in Clients : RemoveUserFromRoom(roomId, uid)
    \/ \E roomId \in RoomIds : DeleteRoom(roomId)
    \/ \E roomId \in RoomIds : RoomDraw(roomId)
    \/ \E roomId \in RoomIds : RoomUndo(roomId)
    \/ Tick

RoomSpec == RoomInit /\ [][RoomNext]_vars

(* ---------------- rooms with sessions and their logs ------------------- *)
\* IsolationSpec drives two rooms side by side: sessions, each with an open
\* socket of its own, join and leave rooms, the caller appends to, undoes,
\* redoes and clears the log of a room, and broadcasts to a room.
SocketOf(uid) == IF uid = "A" THEN 1 ELSE 2
SessionInfo(uid) == [username |-> uid, ws |-> SocketOf(uid)]

IsolationInit ==
    /\ DrawingStateInit(ServerCap)
    /\ users = {}
    /\ readyState = [u \in UserIds |-> "OPEN"]
    /\ userIdCounter = 0
    /\ inbox = [u \in UserIds |-> <<>>]
    /\ ws = [c \in Clients |-> Null]
    /\ userId = [c \in Clients |-> Null]
    /\ roster = [c \in Clients |-> {}]
    /\ view = [c \in Clients |-> <<>>]
    /\ received = <<>>
    /\ wsClient = [c \in Clients |-> NewWebSocketClient]
    /\ RoomManagerInit

JoinRoom(roomId, uid) ==
    /\ rooms' = addUserToRoom(rooms, roomId, uid, SessionInfo(uid))
    /\ received' = <<"addUserToRoom", roomId>>
    /\ UNCHANGED <<logVars, sysVars, result, now, wsClient>>

RoomRedo(roomId) ==
    /\ roomId \in DOMAIN rooms
    /\ rooms[roomId].users # <<>>
    /\ rooms' = [rooms EXCEPT ![roomId].drawingState = DsRedo(@)]
    /\ UNCHANGED <<logVars, sysVars, result, received, now, wsClient>>

RoomClear(roomId) ==
    /\ roomId \in DOMAIN rooms
    /\ rooms[roomId].users # <<>>
    /\ rooms' = [rooms EXCEPT ![roomId].drawingState = DsClear(@)]
    /\ UNCHANGED <<logVars, sysVars, result, received, now, wsClient>>

(* ------------- the two broadcasts applied to registries ---------------- *)
\* FanoutSpec applies the server's broadcast and sendToUser and RoomManager's
\* broadcastToRoom to registries drawn from bounded sets: any set of users
\* with any transports, and a default room with any users, each with a
\* socket of its own or with none.
RoomMsg == [type |-> "room-message"]

RoomUserInfos(uid) ==
    {[username |-> uid, joinedAt |-> 0]}
    \cup {[username |-> uid, joinedAt |-> 0, ws |-> u] : u \in UserIds}

RoomEntries ==
    UNION {{[id |-> uid, info |-> info] : info \in RoomUserInfos(uid)} : uid \in Clients}

RoomUserMaps ==
    {m \in UNION {[1..n -> RoomEntries] : n \in 0..Cardinality(Clients)} :
        \A i, j \in 1..Len(m) : i # j =>
              /\ m[i].id # m[j].id
              /\ ("ws" \in DOMAIN m[i].info /\ "ws" \in DOMAIN m[j].info)
                    => m[i].info.ws # m[j].info.ws}

FanoutInit ==
    /\ DrawingStateInit(ServerCap)
    /\ users \in SUBSET UserIds
    /\ readyState \in [UserIds -> {"OPEN", "CLOSED"}]
    /\ userIdCounter = MaxUsers
    /\ inbox = [u \in UserIds |-> <<>>]
    /\ ws = [c \in Clients |-> Null]
    /\ userId = [c \in Clients |-> Null]
    /\ roster = [c \in Clients |-> {}]
    /\ view = [c \in Clients |-> <<>>]
    /\ received = <<>>
    /\ wsClient = [c \in Clients |-> NewWebSocketClient]
    /\ now = 0
    /\ \E m \in RoomUserMaps :
          rooms = [createRoom(<<>>, defaultRoomId) EXCEPT ![defaultRoomId].users = m]

\* each function is applied to queues that do not hold its message yet
NotYetSent(message) ==
    \A u \in UserIds : \A i \in 1..Len(inbox[u]) : inbox[u][i] # message

fanoutFrame ==
    UNCHANGED <<logVars, result, users, readyState, userIdCounter, cliVars,
                rooms, now, wsClient>>

ServerBroadcast(excludeUserId) ==
    /\ NotYetSent(ClearMsg)
    /\ inbox' = broadcast(inbox, users, readyState, ClearMsg, excludeUserId)
    /\ received' = <<"broadcast", excludeUserId>>
    /\ fanoutFrame

ServerSendToUser(uid) ==
    /\ NotYetSent(UndoMsg(<<>>))
    /\ inbox' = sendToUser(inbox, users, readyState, uid, UndoMsg(<<>>))
    /\ received' = <<"sendToUser", uid>>
    /\ fanoutFrame

RoomBroadcast(roomId, excludeUserId) ==
    /\ NotYetSent(RoomMsg)
    /\ inbox' = broadcastToRoom(inbox, readyState, rooms, roomId, RoomMsg, excludeUserId)
    /\ received' = <<"broadcastToRoom", roomId, excludeUserId>>
    /\ fanoutFrame

FanoutNext ==
    \/ \E excludeUserId \in UserIds \cup {Null} : ServerBroadcast(excludeUserId)
    \/ \E uid \in UserIds : ServerSendToUser(uid)
    \/ \E roomId \in RoomIds, excludeUserId \in Clients \cup {NoUser} :
          RoomBroadcast(roomId, excludeUserId)

FanoutSpec == FanoutInit /\ [][FanoutNext]_vars

IsolationNext ==
    \/ \E roomId \in RoomIds, uid \in Clients : JoinRoom(roomId, uid)
    \/ \E roomId \in RoomIds, uid \in Clients : RemoveUserFromRoom(roomId, uid)
    \/ \E roomId \in RoomIds : RoomDraw(roomId)
    \/ \E roomId \in RoomIds : RoomUndo(roomId)
    \/ \E roomId \in RoomIds : RoomRedo(roomId)
    \/ \E roomId \in RoomIds : RoomClear(roomId)
    \/ \E roomId \in RoomIds, excludeUserId \in Clients \cup {NoUser} :
          RoomBroadcast(roomId, excludeUserId)

IsolationSpec == IsolationInit /\ [][IsolationNext]_vars

(* ======================= properties of the log ========================= *)
Min(a, b) == IF a < b THEN a ELSE b
Ids(s) == [i \in 1..Len(s) |-> s[i].id]
Reverse(s) == [i \in 1..Len(s) |-> s[Len(s) + 1 - i]]
AnyLogAppend == \E operation \in OperationInputs : LogAppend(operation)
\* the last DrawingState call was addOperation (it returns the stored record)
JustAppended == "id" \in DOMAIN result
LogFrame == UNCHANGED logVars

\* C1: under appends alone (AppendSpec) the entries never outnumber the cap,
\* and after operationIdCounter appends they are the min(cap, appended) newest
\* operations: ids counter-len+1 .. counter, ascending, the newest one last.
C1_CapKeepsNewest ==
    /\ Len(operations) <= maxOperations
    /\ Len(operations) = Min(maxOperations, operationIdCounter)
    /\ \A i \in 1..Len(operations) :
          operations[i].id = operationIdCounter - Len(operations) + i
    /\ operations # <<>> => Last(operations) = result

C1_Witness ==
    /\ operationIdCounter > maxOperations
    /\ Len(operations) = maxOperations
    /\ operations[1].id > 1

\* C2: every append leaves redoStack empty, and a redo issued right after an
\* append fails with "Nothing to redo" and changes nothing in the log.
C2_AppendClearsRedo ==
    [][ /\ AnyLogAppend => redoStack' = <<>>
        /\ (JustAppended /\ LogRedo) =>
              /\ result' = NothingToRedo
              /\ LogFrame ]_vars

\* redo has just failed on a log whose newest entry was appended after an undo
\* had removed the entry before it (the id in between is gone)
C2_Witness ==
    /\ result = NothingToRedo
    /\ maxOperations >= 2
    /\ Len(operations) >= 2
    /\ Last(operations).id = operationIdCounter
    /\ operations[Len(operations) - 1].id < operationIdCounter - 1

\* C3: undo and redo move exactly one operation between the end of entries
\* and the end of redoStack and change nothing else, so entries followed by
\* the undone operations (most recently undone first) stays the same
\* sequence: k undos then j <= k redos give the original entries without the
\* last k-j, which are still in redoStack with their ids.
C3_UndoRedoInverse ==
    [][ /\ (LogUndo /\ operations # <<>>) =>
              /\ operations' = Front(operations)
              /\ redoStack' = Append(redoStack, Last(operations))
        /\ (LogRedo /\ redoStack # <<>>) =>
              /\ operations' = Append(operations, Last(redoStack))
              /\ redoStack' = Front(redoStack)
        /\ (LogUndo \/ LogRedo) =>
              /\ operations' \o Reverse(redoStack') = operations \o Reverse(redoStack)
              /\ operationIdCounter' = operationIdCounter ]_vars

\* two undos and one redo: one operation is back, one still undone
C3_Witness ==
    /\ "success" \in DOMAIN result
    /\ result.success
    /\ Len(operations) >= 2
    /\ Len(redoStack) = 1
    /\ redoStack[1].id = Last(operations).id + 1

\* C4: undo on empty entries returns the failure "Nothing to undo", redo on an
\* empty redoStack returns the failure "Nothing to redo", and neither changes
\* entries, redoStack or the id counter.
C4_EmptyFailures ==
    [][ /\ (LogUndo /\ operations = <<>>) =>
              /\ result' = NothingToUndo
              /\ LogFrame
        /\ (LogRedo /\ redoStack = <<>>) =>
              /\ result' = NothingToRedo
              /\ LogFrame ]_vars

\* appends 1,2,3 and a fourth undo
C4_Witness ==
    /\ result = NothingToUndo
    /\ operations = <<>>
    /\ Ids(redoStack) = <<3, 2, 1>>

\* C5: the id counter never decreases (not on undo, redo, clear or
\* truncation) and each append returns an operation whose id is the counter
\* after incrementing it, so it is above every id assigned before.
C5_IdsNeverReused ==
    [][ /\ operationIdCounter' >= operationIdCounter
        /\ AnyLogAppend =>
              /\ result'.id = operationIdCounter'
              /\ result'.id > operationIdCounter
              /\ \A i \in 1..Len(operations) : operations[i].id < result'.id
              /\ \A i \in 1..Len(redoStack) : redoStack[i].id < result'.id ]_vars

\* an append onto a log emptied by clear or undo still gets a fresh id
C5_Witness ==
    /\ JustAppended
    /\ maxOperations >= 2
    /\ Len(operations) = 1
    /\ operations[1].id >= 3

\* C6: clear leaves entries and redoStack empty, and an undo or redo right
\* after it fails without changing the log.
C6_ClearEmpties ==
    [][ /\ LogClear => (operations' = <<>> /\ redoStack' = <<>>)
        /\ (result = Undefined /\ LogUndo) => (result' = NothingToUndo /\ LogFrame)
        /\ (result = Undefined /\ LogRedo) => (result' = NothingToRedo /\ LogFrame) ]_vars

\* a log that held entries and undone entries, cleared
C6_Witness ==
    /\ result = Undefined
    /\ operationIdCounter >= 3
    /\ operations = <<>>
    /\ redoStack = <<>>

(* ===================== properties of the system ======================== *)
Open(u) == u \in users /\ readyState[u] = "OPEN"
\* what a broadcast of message does to the frames in flight
Delivered(message) ==
    \A v \in UserIds :
        inbox'[v] = IF Open(v) THEN Append(inbox[v], message) ELSE inbox[v]
Payloads(ops) == [i \in 1..Len(ops) |-> ops[i].data]
\* the last n elements of s
Suffix(s, n) == SubSeq(s, Len(s) - n + 1, Len(s))

\* C7: a draw frame from a joined session adds one operation with the
\* sender's id and the payload at the end of the log (the earlier entries
\* stay in order, the oldest dropped at the cap) and puts one draw frame with
\* that id and payload in flight to every open session, the sender included,
\* and to no other.
C7_DrawAppendsAndFansOut ==
    [][ \A c \in Clients : ClientDraw(c) =>
          /\ Last(operations') =
                [type |-> "draw", userId |-> ws[c], data |-> NextSegment(c),
                 id |-> operationIdCounter + 1]
          /\ Len(operations') <= Len(operations) + 1
          /\ Front(operations') = Suffix(operations, Len(operations') - 1)
          /\ Open(ws[c])
          /\ Delivered(DrawMsg(ws[c], NextSegment(c))) ]_vars

\* two open sessions hold the same draw frame, sent by one of them, whose
\* operation is the newest of the log
C7_Witness ==
    \E u, v \in users :
        /\ u # v /\ Open(u) /\ Open(v)
        /\ inbox[u] # <<>> /\ inbox[v] # <<>> /\ operations # <<>>
        /\ Last(inbox[u]) = DrawMsg(u, Last(operations).data)
        /\ Last(inbox[v]) = Last(inbox[u])
        /\ Last(operations).userId = u

\* C8: an undo (redo) frame from any joined session runs the log's undo
\* (redo) on the newest entry (newest undone operation) whoever drew it; when
\* it succeeds every open session, the requester included, gets one undo
\* (redo) frame with the entries as they are afterwards; when it fails no
\* frame is sent and the log is unchanged.
C8_UndoRedoGlobal ==
    [][ \A c \in Clients :
          /\ ClientButton(c, "undo") =>
                IF operations = <<>>
                THEN inbox' = inbox /\ LogFrame
                ELSE /\ operations' = Front(operations)
                     /\ redoStack' = Append(redoStack, Last(operations))
                     /\ Open(ws[c])
                     /\ Delivered(UndoMsg(operations'))
          /\ ClientButton(c, "redo") =>
                IF redoStack = <<>>
                THEN inbox' = inbox /\ LogFrame
                ELSE /\ operations' = Append(operations, Last(redoStack))
                     /\ redoStack' = Front(redoStack)
                     /\ Open(ws[c])
                     /\ Delivered(RedoMsg(operations')) ]_vars

\* an undo has removed an operation whose author is no longer a session, so
\* the request came from another one, and the undo frame is in flight
C8_Witness ==
    /\ redoStack # <<>>
    /\ Last(redoStack).userId \notin users
    /\ \E v \in users :
          /\ Open(v)
          /\ inbox[v] # <<>>
          /\ Last(inbox[v]) = UndoMsg(operations)

\* C9: once every frame sent has been handled and delivered, the strokes on
\* each connected client's canvas are the payloads of the server's entries,
\* in order.
Quiescent == \A u \in UserIds : inbox[u] = <<>>
C9_ViewsConverge ==
    Quiescent => \A c \in Clients : ws[c] # Null => view[c] = Payloads(operations)

\* C10: a client applies every draw frame it takes that another session
\* sent; only frames carrying its own session id are left out.
C10_RemoteDrawsApplied ==
    [][ \A c \in Clients :
          (/\ ClientReceive(c)
           /\ Head(inbox[ws[c]]).type = "draw"
           /\ Head(inbox[ws[c]]).userId # ws[c])
          => view'[c] = Append(view[c], Head(inbox[ws[c]]).data) ]_vars

\* C11: a cursor frame leaves the log (entries, redo stack, id counter) as it
\* was, and puts one cursor frame carrying the sender's session id and the
\* position at the end of the queue of every open session but the sender;
\* the sender's queue, and with it every queue when the sender is alone,
\* stays as it was.
C11_CursorRelayed ==
    [][ \A c \in Clients :
          WireSend(c, JSONstringify([type |-> "cursor", x |-> 1, y |-> 1])) =>
            /\ LogFrame
            /\ \A u \in UserIds :
                  inbox'[u] = IF Open(u) /\ u # ws[c]
                              THEN Append(inbox[u], CursorMsg(ws[c], 1, 1))
                              ELSE inbox[u]
            /\ users = {ws[c]} => inbox' = inbox ]_vars

\* a session holds the cursor frame of another one, which holds nothing,
\* while the log holds an operation
C11_Witness ==
    \E u, v \in users :
        /\ u # v /\ Open(u) /\ Open(v)
        /\ received = <<u, JSONstringify([type |-> "cursor", x |-> 1, y |-> 1])>>
        /\ inbox[u] = <<>>
        /\ inbox[v] # <<>> /\ Last(inbox[v]) = CursorMsg(u, 1, 1)
        /\ operations # <<>>

\* frames of one type in a queue
OfType(q, type) == SelectSeq(q, LAMBDA frame : frame.type = type)

\* C12: when a connection is made the new session enters the registry and
\* its queue, empty until then, starts with the one user-joined frame it
\* gets: its own id and the roster of the registry, itself included. Every
\* other open session gets that same frame once, at the end of its queue; the
\* new session gets no second copy.
C12_JoinAnnounced ==
    [][ \A c \in Clients : Connect(c) =>
          LET uid == userIdCounter + 1
              joined == UserJoinedMsg(uid, users \cup {uid})
          IN  /\ uid \notin users /\ users' = users \cup {uid}
              /\ ws'[c] = uid /\ readyState'[uid] = "OPEN"
              /\ inbox[uid] = <<>>
              /\ Head(inbox'[uid]) = joined
              /\ Len(OfType(inbox'[uid], "user-joined")) = 1
              /\ \A u \in users :
                    inbox'[u] = IF Open(u) THEN Append(inbox[u], joined)
                                ELSE inbox[u] ]_vars

\* the second session has just joined a registry of two: it holds one
\* user-joined frame and the first session holds the same one
C12_Witness ==
    /\ users = {1, 2} /\ Open(1) /\ Open(2)
    /\ inbox[2] # <<>> /\ inbox[1] # <<>>
    /\ Head(inbox[2]) = UserJoinedMsg(2, {1, 2})
    /\ Len(OfType(inbox[2], "user-joined")) = 1
    /\ Last(inbox[1]) = UserJoinedMsg(2, {1, 2})

\* C13: a state-sync frame is sent only by the connection handler, only to
\* the new session, and exactly when the log has entries: the new session's
\* queue is then its user-joined frame followed by one state-sync frame whose
\* operations are the entries of the log, in order (nothing undone, nothing
\* the cap dropped); with an empty log it is the user-joined frame alone.
C13_SyncOnJoin ==
    [][ /\ \A c \in Clients : Connect(c) =>
              LET uid == userIdCounter + 1
                  joined == UserJoinedMsg(uid, users \cup {uid})
              IN  inbox'[uid] = IF operations # <<>>
                                THEN <<joined, StateSyncMsg(operations)>>
                                ELSE <<joined>>
        /\ \A u \in UserIds :
              Len(OfType(inbox'[u], "state-sync")) > Len(OfType(inbox[u], "state-sync"))
                => /\ u = userIdCounter + 1
                   /\ \E c \in Clients : Connect(c) ]_vars

\* a session has just joined a log that holds an operation and has lost
\* another one (undone or dropped by the cap): its queue is user-joined, then
\* state-sync with the entries
C13_Witness ==
    \E u \in users :
        /\ Open(u)
        /\ operations # <<>>
        /\ operationIdCounter > Len(operations)
        /\ inbox[u] = <<UserJoinedMsg(u, users), StateSyncMsg(operations)>>

\* C14: when a connection has closed the session leaves the registry, every
\* remaining open session gets one user-left frame with the departed id and
\* the roster without it, the log stays as it was, and a session that is
\* not in the registry is never sent anything.
C14_LeaveAnnounced ==
    [][ /\ \A uid \in UserIds : ServerClose(uid) =>
              /\ users' = users \ {uid}
              /\ LogFrame
              /\ inbox'[uid] = inbox[uid]
              /\ \A u \in users' :
                    inbox'[u] = IF Open(u)
                                THEN Append(inbox[u], UserLeftMsg(uid, users \ {uid}))
                                ELSE inbox[u]
        /\ \A u \in UserIds :
              (u \notin users /\ u \notin users') =>
                 inbox'[u] = inbox[u] ]_vars

\* the first session is gone and the second, still open, holds the user-left
\* frame naming it, while the log holds an operation
C14_Witness ==
    /\ users = {2} /\ Open(2)
    /\ inbox[1] = <<>>
    /\ inbox[2] # <<>> /\ Last(inbox[2]) = UserLeftMsg(1, {2})
    /\ operations # <<>>

\* frames that are not JSON, or whose type is none the switch knows
UnhandledFrames ==
    {Malformed, NullText,
     JSONstringify([type |-> "ping"]), JSONstringify([x |-> 1, y |-> 1])}

\* draw frames without coordinates, or without data
BadDrawFrames ==
    {JSONstringify([type |-> "draw", data |-> [color |-> "#000000"]]),
     JSONstringify([type |-> "draw"])}

\* C15: a frame that is not JSON, or that carries no type the server knows,
\* changes neither the log nor the registry (the sender stays in it, its
\* transport open, so its next frame is handled like any other) and adds no
\* frame to any queue.
C15_UnhandledFramesIgnored ==
    [][ \A c \in Clients, message \in UnhandledFrames :
          WireSend(c, message) =>
            /\ LogFrame
            /\ UNCHANGED <<users, readyState, userIdCounter>>
            /\ inbox' = inbox
            /\ ws[c] \in users' /\ readyState'[ws[c]] = "OPEN" ]_vars

\* the server has just taken text that is not JSON from a session that
\* is still joined and open, next to another open session, with an operation
\* in the log
C15_Witness ==
    /\ received # <<>>
    /\ received[2] = Malformed
    /\ Open(received[1])
    /\ \E v \in users : v # received[1] /\ Open(v)
    /\ operations # <<>>

\* C16: a draw frame whose payload lacks the coordinates, or that has no
\* data at all, leaves the log (entries, redo stack, id counter) as it was.
C16_BadDrawRejected ==
    [][ \A c \in Clients, message \in BadDrawFrames :
          WireSend(c, message) => LogFrame ]_vars

\* a queue holds a message
Holds(q, message) == \E i \in 1..Len(q) : q[i] = message
\* the sockets of the users of a room other than the excluded one
RoomSockets(roomId, excludeUserId) ==
    IF roomId \notin DOMAIN rooms THEN {}
    ELSE {u \in UserIds :
            \E i \in 1..Len(rooms[roomId].users) :
                /\ rooms[roomId].users[i].id # excludeUserId
                /\ "ws" \in DOMAIN rooms[roomId].users[i].info
                /\ rooms[roomId].users[i].info.ws = u}

\* C17: a broadcast writes the message once to every session of its target
\* set (the registry for the server's broadcast, the users of the room for
\* broadcastToRoom) whose transport is open and that is not the excluded
\* one, and to no other: the sessions whose transport is closed are passed
\* over wherever they come in the iteration.
C17_FanoutSkipsClosed ==
    [][ /\ \A excludeUserId \in UserIds \cup {Null} :
              ServerBroadcast(excludeUserId) =>
                \A u \in UserIds :
                    inbox'[u] = IF u \in users \ {excludeUserId} /\ readyState[u] = "OPEN"
                                THEN Append(inbox[u], ClearMsg) ELSE inbox[u]
        /\ \A uid \in UserIds :
              ServerSendToUser(uid) =>
                \A u \in UserIds :
                    inbox'[u] = IF u = uid /\ u \in users /\ readyState[u] = "OPEN"
                                THEN Append(inbox[u], UndoMsg(<<>>)) ELSE inbox[u]
        /\ \A roomId \in RoomIds, excludeUserId \in Clients \cup {NoUser} :
              RoomBroadcast(roomId, excludeUserId) =>
                \A u \in UserIds :
                    inbox'[u] = IF u \in RoomSockets(roomId, excludeUserId)
                                   /\ readyState[u] = "OPEN"
                                THEN Append(inbox[u], RoomMsg) ELSE inbox[u] ]_vars

\* both broadcasts have passed over a closed session that comes first in the
\* iteration and written to an open one after it
C17_Witness ==
    /\ \E u, v \in users :
          /\ u < v /\ readyState[u] = "CLOSED" /\ readyState[v] = "OPEN"
          /\ inbox[u] = <<>> /\ Holds(inbox[v], ClearMsg)
    /\ \E i, j \in 1..Len(rooms[defaultRoomId].users) :
          LET first == rooms[defaultRoomId].users[i].info
              second == rooms[defaultRoomId].users[j].info
          IN  /\ i < j /\ "ws" \in DOMAIN first /\ "ws" \in DOMAIN second
              /\ readyState[first.ws] = "CLOSED" /\ readyState[second.ws] = "OPEN"
              /\ inbox[first.ws] = <<>> /\ Holds(inbox[second.ws], RoomMsg)

\* the rooms other than roomId are what they were
OtherRoomsKept(roomId) ==
    \A other \in DOMAIN rooms \ {roomId} :
        other \in DOMAIN rooms' /\ rooms'[other] = rooms[other]
\* a room as createRoom builds it
FreshRoom(room, roomId) ==
    /\ room.id = roomId /\ room.users = <<>> /\ room.createdAt = now
    /\ room.drawingState.operations = <<>>
    /\ room.drawingState.redoStack = <<>>
    /\ room.drawingState.operationIdCounter = 0

\* C18: removeUserFromRoom of the only user of a room other than the default
\* one takes the room, with its log, out of the registry (getRoom gives
\* null); of the only user of the default room, it leaves the default room
\* with no users and its log as it was; while other users remain, the room
\* stays, without that user and with its log as it was. No other room
\* changes.
C18_LastUserOut ==
    [][ \A roomId \in RoomIds, uid \in Clients :
          (RemoveUserFromRoom(roomId, uid) /\ roomId \in DOMAIN rooms) =>
            LET us == rooms[roomId].users
                isLast == Len(us) = 1 /\ us[1].id = uid
                othersRemain == \E i \in 1..Len(us) : us[i].id # uid
            IN  /\ (isLast /\ roomId # defaultRoomId) =>
                      /\ roomId \notin DOMAIN rooms'
                      /\ getRoom(rooms', roomId) = NoRoom
                /\ (isLast /\ roomId = defaultRoomId) =>
                      /\ roomId \in DOMAIN rooms'
                      /\ rooms'[roomId].users = <<>>
                      /\ rooms'[roomId].drawingState = rooms[roomId].drawingState
                /\ othersRemain =>
                      /\ roomId \in DOMAIN rooms'
                      /\ rooms'[roomId].users =
                            SelectSeq(us, LAMBDA entry : entry.id # uid)
                      /\ rooms'[roomId].createdAt = rooms[roomId].createdAt
                      /\ rooms'[roomId].drawingState = rooms[roomId].drawingState
                /\ OtherRoomsKept(roomId) ]_vars

\* the last call took a user out of the lobby, which is gone; the default
\* room has lost all its users and kept the log they wrote
C18_Witness ==
    /\ received = <<"removeUserFromRoom", "lobby">>
    /\ "lobby" \notin DOMAIN rooms
    /\ defaultRoomId \in DOMAIN rooms
    /\ rooms[defaultRoomId].users = <<>>
    /\ rooms[defaultRoomId].drawingState.operationIdCounter > 0

\* C19: whatever methods are called, deleteRoom on the default id included,
\* the registry holds the default room.
C19_DefaultRoomStays == defaultRoomId \in DOMAIN rooms

\* deleteRoom has just been called on the default room, empty of users
C19_Witness ==
    /\ received = <<"deleteRoom", defaultRoomId>>
    /\ defaultRoomId \in DOMAIN rooms
    /\ rooms[defaultRoomId].users = <<>>
    /\ "lobby" \notin DOMAIN rooms

\* C20: createRoom and getOrCreateRoom on an id the registry holds return
\* the room it holds and change nothing; addUserToRoom on such an id changes
\* nothing of the room but the entry of that user. On an absent id each
\* builds a room with an empty log (addUserToRoom then adds its user, the
\* others add no one), created now, and no other room changes.
C20_CreateIdempotent ==
    [][ /\ \A roomId \in RoomIds :
              (CreateRoom(roomId) \/ GetOrCreateRoom(roomId)) =>
                /\ roomId \in DOMAIN rooms =>
                      /\ rooms' = rooms
                      /\ createRoomResult(rooms, roomId) = rooms[roomId]
                      /\ getOrCreateRoomResult(rooms, roomId) = rooms[roomId]
                /\ roomId \notin DOMAIN rooms =>
                      /\ roomId \in DOMAIN rooms'
                      /\ FreshRoom(rooms'[roomId], roomId)
                      /\ createRoomResult(rooms, roomId) = rooms'[roomId]
                      /\ getOrCreateRoomResult(rooms, roomId) = rooms'[roomId]
                /\ OtherRoomsKept(roomId)
        /\ \A roomId \in RoomIds, uid \in Clients :
              AddUserToRoom(roomId, uid) =>
                /\ roomId \in DOMAIN rooms'
                /\ roomId \in DOMAIN rooms =>
                      /\ rooms'[roomId].drawingState = rooms[roomId].drawingState
                      /\ rooms'[roomId].createdAt = rooms[roomId].createdAt
                      /\ \A i \in 1..Len(rooms[roomId].users) :
                            rooms[roomId].users[i].id # uid =>
                               rooms'[roomId].users[i] = rooms[roomId].users[i]
                /\ roomId \notin DOMAIN rooms =>
                      /\ FreshRoom([rooms'[roomId] EXCEPT !.users = <<>>], roomId)
                      /\ Len(rooms'[roomId].users) = 1
                      /\ rooms'[roomId].users[1].id = uid
                /\ OtherRoomsKept(roomId) ]_vars

\* createRoom has just been called on the lobby, which was created earlier,
\* has a user and has had an operation appended to its log
C20_Witness ==
    /\ received = <<"createRoom", "lobby">>
    /\ "lobby" \in DOMAIN rooms
    /\ rooms["lobby"].users # <<>>
    /\ rooms["lobby"].drawingState.operationIdCounter > 0
    /\ rooms["lobby"].createdAt < now

\* the last DrawingState call was a redo that filled the log up to its cap
\* (an undo leaves fewer than cap entries)
JustRedoneToCap ==
    /\ "success" \in DOMAIN result /\ result.success
    /\ Len(result.operations) = maxOperations
    /\ result.operations = operations

\* C25: under any calls of addOperation, undo, redo and clear the ids of the
\* entries ascend strictly from the oldest to the newest.
C25_IdsAscending ==
    \A i, j \in 1..Len(operations) :
        i < j => operations[i].id < operations[j].id

\* a log of two or more entries that has lost its oldest operations to the
\* cap and has just had an undone operation redone
C25_Witness ==
    /\ JustRedoneToCap
    /\ Len(operations) >= 2
    /\ operations[1].id > 1

\* C26: no id is in both the entries and the redo stack, and none is twice
\* in either.
C26_EntriesUndoneDisjoint ==
    /\ \A i \in 1..Len(operations), j \in 1..Len(redoStack) :
          operations[i].id # redoStack[j].id
    /\ \A i, j \in 1..Len(operations) :
          i # j => operations[i].id # operations[j].id
    /\ \A i, j \in 1..Len(redoStack) :
          i # j => redoStack[i].id # redoStack[j].id

\* entries and a redo stack of two operations side by side
C26_Witness ==
    /\ operations # <<>>
    /\ Len(redoStack) >= 2

\* C27: the entries and the redo stack together never hold more operations
\* than the cap, so that the entries never outnumber the cap, after a redo
\* either.
C27_TotalWithinCap ==
    /\ Len(operations) + Len(redoStack) <= maxOperations
    /\ Len(operations) <= maxOperations

\* an undo or a redo has just succeeded on a log whose cap has dropped
\* operations: entries and redo stack, neither empty, add up to the cap
C27_Witness ==
    /\ "success" \in DOMAIN result /\ result.success
    /\ result.operations = operations
    /\ operations # <<>> /\ redoStack # <<>>
    /\ Len(operations) + Len(redoStack) = maxOperations
    /\ operationIdCounter > maxOperations

\* C24: getOperationsSince(id) returns the entries whose id is greater than
\* id, in their order: the entries split into those with an id up to the
\* given one, then the ones returned. It returns none when the given id is
\* the newest id or more, and leaves the log as it was.
C24_OperationsSince ==
    [][ \A sinceId \in SinceIds : LogSince(sinceId) =>
          LET returned == result'.array
              kept == Len(operations) - Len(returned)
          IN  /\ LogFrame
              /\ kept >= 0
              /\ returned = Suffix(operations, Len(returned))
              /\ \A i \in 1..Len(operations) :
                    (i > kept) <=> (operations[i].id > sinceId)
              /\ (operations = <<>> \/ sinceId >= Last(operations).id)
                    => returned = <<>> ]_vars

\* the last call asked for the operations since an id that some entries
\* exceed and others do not, in a log that has dropped operations and has
\* an undone one: some entries came back, not all
C24_Witness ==
    /\ "array" \in DOMAIN result
    /\ result.array # <<>>
    /\ Len(result.array) < Len(operations)
    /\ result.array = Suffix(operations, Len(result.array))
    /\ operations[1].id > 1
    /\ redoStack # <<>>

\* C23: a connection is given an id that no connection had before it, open
\* or closed: the id is one more than the counter, the counter never goes
\* down, and every id the server or a client holds anywhere (the registry,
\* a socket, the log, a frame in flight, a client's own id and roster) is
\* at most the counter; so a client that reconnects gets an id other than
\* its previous one
IdsInFrame(message) ==
    (IF "userId" \in DOMAIN message THEN {message.userId} ELSE {})
        \cup (IF "users" \in DOMAIN message THEN message.users ELSE {})
IdsInUse ==
    users
        \cup {ws[c] : c \in Clients} \cup {userId[c] : c \in Clients}
        \cup UNION {roster[c] : c \in Clients}
        \cup {operations[i].userId : i \in 1..Len(operations)}
        \cup {redoStack[i].userId : i \in 1..Len(redoStack)}
        \cup {u \in UserIds : inbox[u] # <<>> \/ readyState[u] = "OPEN"}
        \cup UNION {UNION {IdsInFrame(inbox[u][i]) : i \in 1..Len(inbox[u])} :
                       u \in UserIds}
C23_SessionIdsNeverReused ==
    [][ /\ userIdCounter' >= userIdCounter
        /\ \A uid \in IdsInUse : uid <= userIdCounter
        /\ \A c \in Clients : Connect(c) =>
              /\ ws'[c] = userIdCounter + 1
              /\ ws'[c] = userIdCounter'
              /\ ws'[c] \notin IdsInUse
              /\ users' = users \cup {ws'[c]} ]_vars
\* a client drew as user 1, lost its connection, the server closed that
\* session, and the client is connected again, as user 2
C23_Witness ==
    /\ ws["A"] = 2
    /\ userId["A"] = 1
    /\ users = {2}
    /\ operations # <<>>
    /\ operations[1].userId = 1

\* C28: while a connection lasts, a client whose recorded id is the id the
\* server gave that connection keeps it at every step, whatever frame it
\* takes
C28_OwnIdKept ==
    [][ \A c \in Clients :
          (ws[c] # Null /\ ws'[c] = ws[c] /\ userId[c] = ws[c])
          => userId'[c] = ws[c] ]_vars

\* C29: when no frame is in flight, the roster of every connected client is
\* the server's registry
C29_RosterIsRegistry ==
    Quiescent => \A c \in Clients : ws[c] # Null => roster[c] = users

\* C21: a join or a leave on one room, and an append, undo, redo or clear on
\* the log of one room, leave every other room (its users, entries, redo
\* stack and id counter) as it was; a broadcast to one room leaves every
\* room as it was and writes to no socket but those of that room's users
C21_RoomsShareNothing ==
    [][ \A roomId \in RoomIds :
          /\ \A uid \in Clients :
                (JoinRoom(roomId, uid) \/ RemoveUserFromRoom(roomId, uid))
                => (OtherRoomsKept(roomId) /\ inbox' = inbox)
          /\ (RoomDraw(roomId) \/ RoomUndo(roomId) \/ RoomRedo(roomId)
                 \/ RoomClear(roomId))
                => /\ OtherRoomsKept(roomId)
                   /\ rooms'[roomId].users = rooms[roomId].users
                   /\ inbox' = inbox
          /\ \A excludeUserId \in Clients \cup {NoUser} :
                RoomBroadcast(roomId, excludeUserId)
                => /\ rooms' = rooms
                   /\ \A u \in UserIds \ RoomSockets(roomId, NoUser) :
                         inbox'[u] = inbox[u] ]_vars
\* A is in the lobby only and B in the default room only, the two logs
\* differ (one holds an entry, the other an undone one), and a broadcast to
\* the default room has reached B's socket and not A's
C21_Witness ==
    /\ "lobby" \in DOMAIN rooms
    /\ RoomSockets("lobby", NoUser) = {SocketOf("A")}
    /\ RoomSockets("default", NoUser) = {SocketOf("B")}
    /\ rooms["lobby"].drawingState.operations # <<>>
    /\ rooms["default"].drawingState.operations = <<>>
    /\ rooms["default"].drawingState.redoStack # <<>>
    /\ received = <<"broadcastToRoom", "default", NoUser>>
    /\ inbox[SocketOf("B")] = <<RoomMsg>>
    /\ inbox[SocketOf("A")] = <<>>

\* C22: a close schedules a reconnect, and adds one to the count, exactly
\* when the count is below the maximum, and nothing else sets the timer; an
\* open sets the count to 0; the timer calls connect() at most the maximum
\* number of times between two opens; a client whose socket is closed with
\* no timer pending has made exactly the maximum number of attempts since
\* the last open, and stays as it is
Closes(c) == ConnectFails(c) \/ Disconnect(c)
GaveUp(w) == w.readyState = "CLOSED" /\ ~w.timer
C22_BoundedReconnect ==
    [][ \A c \in Clients :
          LET w == wsClient[c]
              w2 == wsClient'[c]
          IN  /\ Closes(c) =>
                    /\ w2.readyState = "CLOSED"
                    /\ w2.timer <=> w.reconnectAttempts < maxReconnectAttempts
                    /\ w2.reconnectAttempts =
                          IF w.reconnectAttempts < maxReconnectAttempts
                          THEN w.reconnectAttempts + 1 ELSE w.reconnectAttempts
              /\ (w2.timer /\ ~w.timer) => Closes(c)
              /\ (w2.retries > w.retries) =>
                    (w.timer /\ w2.retries = w.retries + 1
                       /\ w2.retries <= w.reconnectAttempts)
              /\ Connect(c) => (w2.readyState = "OPEN" /\ w2.reconnectAttempts = 0)
              /\ w2.retries <= maxReconnectAttempts
              /\ GaveUp(w) => (w.retries = maxReconnectAttempts /\ w2 = w) ]_vars
\* A was connected, lost the connection, and has given up after the
\* maximum number of failed attempts; B is connected, its count at 0
C22_Witness ==
    /\ userId["A"] = 1
    /\ GaveUp(wsClient["A"])
    /\ wsClient["A"].reconnectAttempts = maxReconnectAttempts
    /\ wsClient["A"].retries = maxReconnectAttempts
    /\ wsClient["B"].readyState = "OPEN"
    /\ wsClient["B"].reconnectAttempts = 0
    /\ ws["B"] = 2

====
